---- MODULE Spec2Model ----
(***************************************************************************)
(* Model of ez-clip's word-level edit mask (ez_clip_app/core/edit_mask.py). *)
(*                                                                         *)
(* Times are integer ticks (the code uses float seconds; only order and    *)
(* differences of times are used by build_ranges).  A serialized mask is   *)
(* modelled as the decoded JSON object: whether the "kind"/"remove" keys   *)
(* are present, the kind string and the list of [s, e] integer pairs.      *)
(* Indices are 0-based in the payload and in the operators' arguments, as  *)
(* in the code; TLA+ sequences are 1-based, so keep[i+1] is Python keep[i].*)
(***************************************************************************)
EXTENDS Integers, Sequences, FiniteSets, TLC

VARIABLES words, mask, stored, dumped, op, arg, ret, view, diar, fmt, job, ctl, cache

vars == <<words, mask, stored, dumped, op, arg, ret, view, diar, fmt, job, ctl, cache>>

(* ------------------------------ bounds -------------------------------- *)
MaxLen == 3        \* longest keep vector drawn initially (serialisation)
MaxTotal == 3      \* largest total_words passed to loads
MaxIdx == 3        \* largest index appearing in a foreign payload's span
MaxSpans == 2      \* most spans in a foreign payload
MaxWords == 3      \* longest word sequence (range building)
MaxTime == 3       \* latest word time, in ticks
MaxGlue == 2       \* largest glue_gap, in ticks
MaxDTime == 9      \* latest segment/turn time in diarization, in eighths of a second
MaxSegs == 3       \* most segments handed to the formatter

MediaIds == {1, 2}
Kinds == {"mask-v1", "mask-v2"}
DefaultKind == "mask-v1"
DefaultGlueGap == 1   \* glue_gap: float = 0.12, as one tick
None == -1         \* Python None for the integer-or-None local `s` of dumps

(* ------------------------------ helpers ------------------------------- *)
Min(a, b) == IF a <= b THEN a ELSE b
Max(a, b) == IF a >= b THEN a ELSE b

SeqsUpTo(S, n) == UNION {[1..k -> S] : k \in 0..n}

\* [v] * n : a list of n copies of v; n <= 0 gives the empty list
Repeat(v, n) == [i \in 1..Max(n, 0) |-> v]

\* Python's slice bound normalisation for a list of length n (step 1)
SliceBound(x, n) == IF x < 0 THEN Max(x + n, 0) ELSE Min(x, n)

\* keep[s:e] = [False] * (e - s)
SliceAssignFalse(keep, s, e) ==
  LET n     == Len(keep)
      start == SliceBound(s, n)
      stop  == Max(SliceBound(e, n), start)
  IN SubSeq(keep, 1, start) \o Repeat(FALSE, e - s) \o SubSeq(keep, stop + 1, n)

(* ------------------------------ EditMask ------------------------------ *)
\* EditMask(media_id, keep, kind): _ranges starts as the empty list
NewMask(media_id, keep, kind) ==
  [media_id |-> media_id, keep |-> keep, kind |-> kind, ranges |-> <<>>]

\* the loop of dumps: i is the 0-based index, s the open cut run or None
RECURSIVE DumpsLoop(_, _, _, _)
DumpsLoop(keep, i, s, removed) ==
  IF i = Len(keep)
  THEN IF s # None THEN Append(removed, <<s, Len(keep)>>) ELSE removed
  ELSE LET k  == keep[i + 1]
           s1 == IF ~k /\ s = None THEN i ELSE s
       IN IF k /\ s1 # None
          THEN DumpsLoop(keep, i + 1, None, Append(removed, <<s1, i>>))
          ELSE DumpsLoop(keep, i + 1, s1, removed)

\* dumps without the flush of a cut run that reaches the end of keep
RECURSIVE DumpsLoopNoTail(_, _, _, _)
DumpsLoopNoTail(keep, i, s, removed) ==
  IF i = Len(keep)
  THEN removed
  ELSE LET k  == keep[i + 1]
           s1 == IF ~k /\ s = None THEN i ELSE s
       IN IF k /\ s1 # None
          THEN DumpsLoopNoTail(keep, i + 1, None, Append(removed, <<s1, i>>))
          ELSE DumpsLoopNoTail(keep, i + 1, s1, removed)

DumpsNoTail(m) ==
  [hasKind |-> TRUE, kind |-> m.kind, hasRemove |-> TRUE,
   remove |-> DumpsLoopNoTail(m.keep, 0, None, <<>>)]

\* dumps that closes a cut run one index late (inclusive end + 1)
RECURSIVE DumpsLoopLate(_, _, _, _)
DumpsLoopLate(keep, i, s, removed) ==
  IF i = Len(keep)
  THEN IF s # None THEN Append(removed, <<s, Len(keep)>>) ELSE removed
  ELSE LET k  == keep[i + 1]
           s1 == IF ~k /\ s = None THEN i ELSE s
       IN IF k /\ s1 # None
          THEN DumpsLoopLate(keep, i + 1, None, Append(removed, <<s1, i + 1>>))
          ELSE DumpsLoopLate(keep, i + 1, s1, removed)

DumpsLate(m) ==
  [hasKind |-> TRUE, kind |-> m.kind, hasRemove |-> TRUE,
   remove |-> DumpsLoopLate(m.keep, 0, None, <<>>)]

\* all(self.keep): stops at the first falsy entry
RECURSIVE AllLoop(_, _)
AllLoop(keep, i) ==
  IF i > Len(keep) THEN TRUE
  ELSE IF ~keep[i] THEN FALSE ELSE AllLoop(keep, i + 1)

\* any(self.keep)
RECURSIVE AnyLoop(_, _)
AnyLoop(keep, i) ==
  IF i > Len(keep) THEN FALSE
  ELSE IF keep[i] THEN TRUE ELSE AnyLoop(keep, i + 1)

\* is_trivial written with any() in place of all()
IsTrivialAny(m) == AnyLoop(m.keep, 1)

\* EditMask.is_trivial
IsTrivial(m) == AllLoop(m.keep, 1)

\* EditMask.dumps: {"kind": self.kind, "remove": removed}
Dumps(m) ==
  [hasKind |-> TRUE, kind |-> m.kind, hasRemove |-> TRUE,
   remove |-> DumpsLoop(m.keep, 0, None, <<>>)]

\* the loop of loads over data.get("remove", [])
RECURSIVE LoadsLoop(_, _, _)
LoadsLoop(keep, spans, j) ==
  IF j > Len(spans) THEN keep
  ELSE LoadsLoop(SliceAssignFalse(keep, spans[j][1], spans[j][2]), spans, j + 1)

\* EditMask.loads(media_id, json_str, total_words)
Loads(media_id, json, total_words) ==
  LET spans == IF json.hasRemove THEN json.remove ELSE <<>>
      kind  == IF json.hasKind THEN json.kind ELSE DefaultKind
  IN NewMask(media_id, LoadsLoop(Repeat(TRUE, total_words), spans, 1), kind)

\* the loop of build_ranges over zip(words, keep); cur = <<>> is None
RECURSIVE BuildLoop(_, _, _, _, _, _)
BuildLoop(ws, keep, glue_gap, i, cur, rs) ==
  IF i > Min(Len(ws), Len(keep))
  THEN IF cur # <<>> THEN Append(rs, cur) ELSE rs
  ELSE LET w == ws[i]
       IN IF keep[i]
          THEN IF cur # <<>> /\ (w.s - cur[2]) <= glue_gap
               THEN BuildLoop(ws, keep, glue_gap, i + 1, <<cur[1], w.e>>, rs)
               ELSE BuildLoop(ws, keep, glue_gap, i + 1, <<w.s, w.e>>,
                              IF cur # <<>> THEN Append(rs, cur) ELSE rs)
          ELSE BuildLoop(ws, keep, glue_gap, i + 1, <<>>,
                         IF cur # <<>> THEN Append(rs, cur) ELSE rs)

\* build_ranges with a strict comparison against glue_gap
RECURSIVE BuildLoopStrict(_, _, _, _, _, _)
BuildLoopStrict(ws, keep, glue_gap, i, cur, rs) ==
  IF i > Min(Len(ws), Len(keep))
  THEN IF cur # <<>> THEN Append(rs, cur) ELSE rs
  ELSE LET w == ws[i]
       IN IF keep[i]
          THEN IF cur # <<>> /\ (w.s - cur[2]) < glue_gap
               THEN BuildLoopStrict(ws, keep, glue_gap, i + 1, <<cur[1], w.e>>, rs)
               ELSE BuildLoopStrict(ws, keep, glue_gap, i + 1, <<w.s, w.e>>,
                                    IF cur # <<>> THEN Append(rs, cur) ELSE rs)
          ELSE BuildLoopStrict(ws, keep, glue_gap, i + 1, <<>>,
                               IF cur # <<>> THEN Append(rs, cur) ELSE rs)

BuildRangesStrict(ws, keep, glue_gap) ==
  BuildLoopStrict(ws, keep, glue_gap, 1, <<>>, <<>>)

\* build_ranges in which a cut word leaves the open range open
RECURSIVE BuildLoopNoClose(_, _, _, _, _, _)
BuildLoopNoClose(ws, keep, glue_gap, i, cur, rs) ==
  IF i > Min(Len(ws), Len(keep))
  THEN IF cur # <<>> THEN Append(rs, cur) ELSE rs
  ELSE LET w == ws[i]
       IN IF keep[i]
          THEN IF cur # <<>> /\ (w.s - cur[2]) <= glue_gap
               THEN BuildLoopNoClose(ws, keep, glue_gap, i + 1, <<cur[1], w.e>>, rs)
               ELSE BuildLoopNoClose(ws, keep, glue_gap, i + 1, <<w.s, w.e>>,
                                     IF cur # <<>> THEN Append(rs, cur) ELSE rs)
          ELSE BuildLoopNoClose(ws, keep, glue_gap, i + 1, cur, rs)

BuildRangesNoClose(ws, keep, glue_gap) ==
  BuildLoopNoClose(ws, keep, glue_gap, 1, <<>>, <<>>)

\* build_ranges whose merge restarts the open range at the merged word
RECURSIVE BuildLoopDropStart(_, _, _, _, _, _)
BuildLoopDropStart(ws, keep, glue_gap, i, cur, rs) ==
  IF i > Min(Len(ws), Len(keep))
  THEN IF cur # <<>> THEN Append(rs, cur) ELSE rs
  ELSE LET w == ws[i]
       IN IF keep[i]
          THEN IF cur # <<>> /\ (w.s - cur[2]) <= glue_gap
               THEN BuildLoopDropStart(ws, keep, glue_gap, i + 1, <<w.s, w.e>>, rs)
               ELSE BuildLoopDropStart(ws, keep, glue_gap, i + 1, <<w.s, w.e>>,
                                       IF cur # <<>> THEN Append(rs, cur) ELSE rs)
          ELSE BuildLoopDropStart(ws, keep, glue_gap, i + 1, <<>>,
                                  IF cur # <<>> THEN Append(rs, cur) ELSE rs)

BuildRangesDropStart(ws, keep, glue_gap) ==
  BuildLoopDropStart(ws, keep, glue_gap, 1, <<>>, <<>>)

\* EditMask.build_ranges(words, glue_gap): the list stored in _ranges
BuildRanges(ws, keep, glue_gap) ==
  BuildLoop(ws, keep, glue_gap, 1, <<>>, <<>>)

(* ------------------------------ inputs -------------------------------- *)
\* Word: start <= end (zero-length words allowed)
WordSet == {w \in [s : 0..MaxTime, e : 0..MaxTime] : w.s <= w.e}

\* a flat word sequence is ordered by start
SortedByStart(ws) == \A i \in 1..(Len(ws) - 1) : ws[i].s <= ws[i + 1].s

WordSeqs == {ws \in SeqsUpTo(WordSet, MaxWords) : SortedByStart(ws)}

\* spans found in a stored payload: any pair of indices 0..MaxIdx
SpanSet == (0..MaxIdx) \X (0..MaxIdx)

\* payloads not produced by this dumps: any span list, keys may be missing
ForeignPayloads ==
  {[hasKind |-> hk, kind |-> IF hk THEN k ELSE "", hasRemove |-> hr,
    remove |-> IF hr THEN r ELSE <<>>] :
     hk \in BOOLEAN, k \in Kinds, hr \in BOOLEAN, r \in SeqsUpTo(SpanSet, MaxSpans)}

NoArg == [total |-> 0, media_id |-> 0, glue_gap |-> 0, idx |-> 0, keep |-> FALSE]

\* outcome of the last operation: return value, exception class, emitted
\* signal arguments, what the player loaded, clips cut, path taken
NoRet == [value |-> <<>>, raised |-> "", emitted |-> <<>>, loaded |-> "",
          clips |-> <<>>, path |-> ""]

\* WordToggleView.__init__: no words, no mask; the panel has no media
NoView == [words |-> <<>>, mask |-> <<>>, media_id |-> 0, anchors |-> 0]

\* no diarization input
NoDiar == [tracks |-> <<>>, segs |-> <<>>, load |-> "", call |-> "", align |-> "",
           dbg |-> FALSE, path |-> "", speakers |-> <<>>, progress |-> <<>>]

\* no preview built, empty cache directory
NoCache == [files |-> <<>>, clips |-> <<>>, loaded |-> "", scheduled |-> FALSE]

\* no pipeline controller
NoCtl == [queue |-> <<>>, running |-> {}, active |-> {}, sigq |-> <<>>,
          started |-> <<>>, enq |-> 0, failed |-> 0]

\* no transcription job
NoJob == [exists |-> FALSE, extract |-> "", trans |-> "", dzset |-> FALSE, dz |-> "", nseg |-> 0,
          wpc |-> 0, status |-> "", progress |-> 0, saved |-> -1, reported |-> <<>>,
          sigq |-> <<>>, ui |-> "", result |-> "", running |-> {},
          row |-> 0, last |-> 0, wid |-> 0, eid |-> 0, oid |-> 0, opc |-> 0,
          dels |-> 0]

\* no formatter call
NoFmt == [segs |-> <<>>, out |-> "", prev |-> "", calls |-> 0]

(* --------------------- serialisation: dumps / loads ------------------- *)
\* either a mask has been built in memory and no string is stored yet, or a
\* string is stored (possibly written by another version of the format) and
\* the mask in memory is the one just constructed; nothing dumped yet
InitSerial ==
  /\ words = <<>>
  /\ \/ /\ mask \in {NewMask(id, k, kd) :
                       id \in MediaIds, k \in SeqsUpTo(BOOLEAN, MaxLen), kd \in Kinds}
        /\ stored = <<>>
     \/ /\ mask \in {NewMask(id, <<>>, DefaultKind) : id \in MediaIds}
        /\ stored \in {<<json>> : json \in ForeignPayloads}
  /\ dumped = <<>>
  /\ op = "init"
  /\ arg = NoArg
  /\ ret = NoRet
  /\ view = NoView
  /\ cache = NoCache
  /\ ctl = NoCtl
  /\ job = NoJob
  /\ fmt = NoFmt
  /\ diar = NoDiar

\* json_str = mask.dumps(); the string replaces the stored one
DoDumps ==
  /\ stored' = <<Dumps(mask)>>
  /\ dumped' = <<mask>>
  /\ op' = "dumps"
  /\ arg' = NoArg
  /\ ret' = NoRet
  /\ UNCHANGED <<words, mask, view, diar, fmt, job, ctl, cache>>

\* mask = EditMask.loads(media_id, json_str, total_words) of the stored string
DoLoads ==
  /\ stored # <<>>
  /\ \E id \in MediaIds, t \in 0..MaxTotal :
       /\ mask' = Loads(id, stored[1], t)
       /\ arg' = [NoArg EXCEPT !.total = t, !.media_id = id]
  /\ op' = "loads"
  /\ ret' = NoRet
  /\ UNCHANGED <<words, stored, dumped, view, diar, fmt, job, ctl, cache>>

\* b = mask.is_trivial()
DoIsTrivial ==
  /\ ret' = [NoRet EXCEPT !.value = <<IsTrivial(mask)>>]
  /\ op' = "is_trivial"
  /\ arg' = NoArg
  /\ UNCHANGED <<words, mask, stored, dumped, view, diar, fmt, job, ctl, cache>>

NextSerial == DoDumps \/ DoLoads \/ DoIsTrivial

Spec == InitSerial /\ [][NextSerial]_vars

(* ------------------------- range building ----------------------------- *)
\* a transcript and a mask of media 1; the media id names the cache
\* directory and plays no part in build_ranges
InitRanges ==
  /\ words \in WordSeqs
  /\ mask \in {NewMask(1, k, DefaultKind) : k \in [1..Len(words) -> BOOLEAN]}
  /\ stored = <<>>
  /\ dumped = <<>>
  /\ op = "init"
  /\ arg = NoArg
  /\ ret = NoRet
  /\ view = NoView
  /\ cache = NoCache
  /\ ctl = NoCtl
  /\ job = NoJob
  /\ fmt = NoFmt
  /\ diar = NoDiar

\* ranges = mask.build_ranges(words, glue_gap)
DoBuildRanges ==
  /\ \E g \in 0..MaxGlue :
       /\ mask' = [mask EXCEPT !.ranges = BuildRanges(words, mask.keep, g)]
       /\ arg' = [NoArg EXCEPT !.glue_gap = g]
  /\ op' = "build_ranges"
  /\ ret' = NoRet
  /\ UNCHANGED <<words, stored, dumped, view, diar, fmt, job, ctl, cache>>

\* the clip files cache_dir/000.mp4, 001.mp4, ... after the extraction loop
\* of _build: a file that exists is left as it is, a missing one is cut from
\* the media between the start and the end of its range
ExtractClips(files, ranges) ==
  [i \in 1..(IF Len(files) > Len(ranges) THEN Len(files) ELSE Len(ranges)) |->
     IF i <= Len(files) THEN files[i] ELSE ranges[i]]

\* PreviewRebuilder._build for the scheduled mask m and words ws with a live
\* player and a working ffmpeg; without QMediaPlaylist the first clip is
\* loaded if there is one, and the player keeps what it showed otherwise
BuildPreview(c, m, ws) ==
  LET ranges == BuildRanges(ws, m.keep, DefaultGlueGap)
      files  == ExtractClips(c.files, ranges)
  IN IF IsTrivial(m)
     THEN [c EXCEPT !.loaded = "original", !.clips = <<>>, !.scheduled = FALSE]
     ELSE [c EXCEPT !.files = files,
                    !.clips = SubSeq(files, 1, Len(ranges)),
                    !.loaded = IF ranges # <<>> THEN "clips" ELSE c.loaded,
                    !.scheduled = FALSE]

\* PreviewRebuilder._build with the scheduled (mask, words, media_path) and
\* a live player, on the cache directory as earlier builds left it; the
\* clips reported are those this build cut, the others were found
DoBuildPreview ==
  LET ranges == BuildRanges(words, mask.keep, DefaultGlueGap)
  IN /\ mask' = [mask EXCEPT !.ranges = ranges]
     /\ cache' = BuildPreview(cache, mask, words)
     /\ ret' = IF IsTrivial(mask)
               THEN [NoRet EXCEPT !.loaded = "original"]
               ELSE [NoRet EXCEPT !.loaded = IF ranges # <<>> THEN "clips" ELSE "",
                                  !.clips = SubSeq(ranges, Len(cache.files) + 1,
                                                   Len(ranges))]
     /\ op' = "build_preview"
     /\ arg' = [NoArg EXCEPT !.glue_gap = DefaultGlueGap]
     /\ UNCHANGED <<words, stored, dumped, view, diar, fmt, job, ctl>>

\* EditorController.export_clip with a mask, a transcript and a media file:
\* one extract_clip per range, then concat_clips, or ValueError if no range
DoExportClip ==
  LET ranges == BuildRanges(words, mask.keep, DefaultGlueGap)
  IN /\ mask' = [mask EXCEPT !.ranges = ranges]
     /\ ret' = IF ranges # <<>>
               THEN [NoRet EXCEPT !.loaded = "concat", !.clips = ranges]
               ELSE [NoRet EXCEPT !.raised = "ValueError"]
     /\ op' = "export_clip"
     /\ arg' = [NoArg EXCEPT !.glue_gap = DefaultGlueGap]
     /\ UNCHANGED <<words, stored, dumped, view, diar, fmt, job, ctl, cache>>

NextRanges == DoBuildRanges \/ DoBuildPreview \/ DoExportClip

SpecRanges == InitRanges /\ [][NextRanges]_vars

(* ------------------- word view, panel and controller ------------------ *)
\* a list index accepted by Python's list[idx] for a list of length n
ListIndexOK(idx, n) == -n <= idx /\ idx < n

\* the 0-based position a valid Python index denotes (negative: from the end)
NormIndex(idx, n) == IF idx < 0 THEN idx + n ELSE idx

\* keep[idx] = v on a list, for a valid index
ListSet(keep, idx, v) == [keep EXCEPT ![NormIndex(idx, Len(keep)) + 1] = v]

\* a flat word list of n words (the view and the controller use its length)
StubWords(n) == [i \in 1..n |-> [s |-> i - 1, e |-> i]]

\* WordToggleView._rebuild_html: nothing without words or mask; reads
\* mask.keep[i] for every word, so a shorter keep raises IndexError before
\* setHtml; otherwise the document holds one anchor per word
RebuildHtml(v) ==
  IF v.words = <<>> \/ v.mask = <<>>
  THEN [view |-> v, raised |-> ""]
  ELSE IF Len(v.mask[1].keep) < Len(v.words)
       THEN [view |-> v, raised |-> "IndexError"]
       ELSE [view |-> [v EXCEPT !.anchors = Len(v.words)], raised |-> ""]

\* WordToggleView.set_mask
SetMaskView(v, m) == RebuildHtml([v EXCEPT !.mask = <<m>>])

\* WordToggleView.set_words
SetWordsView(v, ws) ==
  LET v1 == [v EXCEPT !.words = ws]
      v2 == IF v1.mask # <<>> /\ Len(v1.mask[1].keep) # Len(ws)
            THEN [v1 EXCEPT !.mask = <<[v1.mask[1] EXCEPT !.keep = Repeat(TRUE, Len(ws))]>>]
            ELSE v1
  IN RebuildHtml(v2)

\* WordEditorPanel.set_media: set_words, then set_mask
SetMediaView(v, media_id, ws, m) ==
  LET r1 == SetWordsView([v EXCEPT !.media_id = media_id], ws)
  IN IF r1.raised # "" THEN r1 ELSE SetMaskView(r1.view, m)

\* the mask after a click that sets the clicked word to cut whatever it was
ClickMaskCut(m, i) == [m EXCEPT !.keep = ListSet(m.keep, i, FALSE)]

\* mousePressEvent on anchor i: the mask after keep[i] = not keep[i]
ClickMask(m, i) == [m EXCEPT !.keep = ListSet(m.keep, i, ~m.keep[i + 1])]

\* WordToggleView.mousePressEvent on the anchor with href i (a digit string,
\* so i >= 0): IndexError is caught and ignored; the signal carries
\* (index, new state)
ClickView(v, i) ==
  IF v.mask = <<>>
  THEN [view |-> v, emitted |-> <<>>, raised |-> "AttributeError"]
  ELSE IF ~ListIndexOK(i, Len(v.mask[1].keep))
       THEN [view |-> v, emitted |-> <<>>, raised |-> ""]
       ELSE LET m2 == ClickMask(v.mask[1], i)
                r  == RebuildHtml([v EXCEPT !.mask = <<m2>>])
            IN [view |-> r.view, emitted |-> <<i, m2.keep[i + 1]>>, raised |-> ""]

\* keys of a key press: Delete and Backspace cut, any other key does not
Keys == {"Delete", "Backspace", "Other"}

RECURSIVE CutPairs(_, _, _)
\* the wordToggled signals of a cutting key press, in document order: one
\* (idx, False) for every selected index from i on that is in the mask and
\* still kept
CutPairs(keep, sel, i) ==
  IF i >= Len(keep) THEN <<>>
  ELSE (IF i \in sel /\ keep[i + 1] THEN <<(<<i, FALSE>>)>> ELSE <<>>)
       \o CutPairs(keep, sel, i + 1)

\* WordToggleView.keyPressEvent with the anchors sel inside the selection:
\* Delete or Backspace sets keep[idx] = False for every selected word that
\* is kept, emitting wordToggled for each, then rebuilds the document if
\* anything changed; any other key, or a selection without anchors, changes
\* nothing (the view is read-only)
KeyPressView(v, key, sel) ==
  IF key = "Other" \/ sel = {}
  THEN [view |-> v, emitted |-> <<>>, raised |-> ""]
  ELSE IF v.mask = <<>>
       THEN [view |-> v, emitted |-> <<>>, raised |-> "AttributeError"]
       ELSE LET m     == v.mask[1]
                pairs == CutPairs(m.keep, sel, 0)
                m2    == [m EXCEPT !.keep =
                            [j \in 1..Len(m.keep) |-> m.keep[j] /\ (j - 1) \notin sel]]
                v2    == [v EXCEPT !.mask = <<m2>>]
                r     == IF pairs # <<>> THEN RebuildHtml(v2)
                         ELSE [view |-> v2, raised |-> ""]
            IN [view |-> r.view, emitted |-> pairs, raised |-> r.raised]

\* DB.get_edit_mask: the stored string decoded for the media's word count,
\* or nothing when no string is stored
GetEditMask(st, media_id, total_words) ==
  IF st = <<>> THEN <<>> ELSE <<Loads(media_id, st[1], total_words)>>

\* DB.save_edit_mask: the mask's dumps() string replaces the stored one
SaveEditMask(m) == <<Dumps(m)>>

\* EditorController.toggle_word for a media with a transcript of words ws:
\* get or create the mask, keep[idx] = keep, save
ToggleWord(st, ws, media_id, idx, keep) ==
  LET got == GetEditMask(st, media_id, Len(ws))
      m   == IF got # <<>> THEN got[1]
             ELSE NewMask(media_id, Repeat(TRUE, Len(ws)), DefaultKind)
  IN IF ~ListIndexOK(idx, Len(m.keep))
     THEN [stored |-> st, mask |-> m, raised |-> "IndexError"]
     ELSE LET m2 == [m EXCEPT !.keep = ListSet(m.keep, idx, keep)]
          IN [stored |-> SaveEditMask(m2), mask |-> m2, raised |-> ""]

\* masks handed to the view: any keep vector, its ranges already built once
\* (build_ranges caches them in _ranges) for a word list of its own length
ViewMasks ==
  {[NewMask(1, k, DefaultKind) EXCEPT
      !.ranges = BuildRanges(StubWords(Len(k)), k, DefaultGlueGap)] :
     k \in SeqsUpTo(BOOLEAN, MaxLen)}

\* a freshly constructed view: no words, no mask, empty document
InitView ==
  /\ words = <<>>
  /\ stored = <<>>
  /\ mask = NewMask(1, <<>>, DefaultKind)
  /\ dumped = <<>>
  /\ op = "init"
  /\ arg = NoArg
  /\ ret = NoRet
  /\ view = NoView
  /\ cache = NoCache
  /\ ctl = NoCtl
  /\ job = NoJob
  /\ fmt = NoFmt
  /\ diar = NoDiar

DoSetWords ==
  /\ \E n \in 0..MaxWords :
       LET r == SetWordsView(view, StubWords(n))
       IN /\ view' = r.view
          /\ ret' = [NoRet EXCEPT !.raised = r.raised]
          /\ arg' = [NoArg EXCEPT !.total = n]
  /\ op' = "set_words"
  /\ UNCHANGED <<words, mask, stored, dumped, diar, fmt, job, ctl, cache>>

DoSetMask ==
  /\ \E m \in ViewMasks :
       LET r == SetMaskView(view, m)
       IN /\ view' = r.view
          /\ ret' = [NoRet EXCEPT !.raised = r.raised]
  /\ arg' = NoArg
  /\ op' = "set_mask"
  /\ UNCHANGED <<words, mask, stored, dumped, diar, fmt, job, ctl, cache>>

DoSetMedia ==
  /\ \E n \in 0..MaxWords, m \in ViewMasks :
       LET r == SetMediaView(view, 1, StubWords(n), m)
       IN /\ view' = r.view
          /\ ret' = [NoRet EXCEPT !.raised = r.raised]
          /\ arg' = [NoArg EXCEPT !.total = n, !.media_id = 1]
  /\ op' = "set_media"
  /\ UNCHANGED <<words, mask, stored, dumped, diar, fmt, job, ctl, cache>>

\* WordEditorPanel.clear: no media, set_words([]), document cleared
DoClear ==
  /\ view' = [SetWordsView([view EXCEPT !.media_id = 0], <<>>).view EXCEPT !.anchors = 0]
  /\ ret' = NoRet
  /\ arg' = NoArg
  /\ op' = "clear"
  /\ UNCHANGED <<words, mask, stored, dumped, diar, fmt, job, ctl, cache>>

\* a mouse press on one of the anchors of the current document
DoClick ==
  /\ \E i \in 0..(view.anchors - 1) :
       LET r == ClickView(view, i)
       IN /\ view' = r.view
          /\ ret' = [NoRet EXCEPT !.raised = r.raised, !.emitted = r.emitted]
          /\ arg' = [NoArg EXCEPT !.idx = i]
  /\ op' = "click"
  /\ UNCHANGED <<words, mask, stored, dumped, diar, fmt, job, ctl, cache>>

\* a key press with some of the document's anchors selected
DoKeyPress ==
  /\ \E key \in Keys, sel \in SUBSET (0..(view.anchors - 1)) :
       LET r == KeyPressView(view, key, sel)
       IN /\ view' = r.view
          /\ ret' = [NoRet EXCEPT !.raised = r.raised, !.emitted = r.emitted]
  /\ arg' = NoArg
  /\ op' = "key_press"
  /\ UNCHANGED <<words, mask, stored, dumped, diar, fmt, job, ctl, cache>>

NextView == DoSetWords \/ DoSetMask \/ DoSetMedia \/ DoClear \/ DoClick \/ DoKeyPress

SpecView == InitView /\ [][NextView]_vars

\* a finished media with its transcript words; its mask is stored or not
InitCtrl ==
  /\ words \in {StubWords(n) : n \in 0..MaxWords}
  /\ stored \in {<<>>} \cup
                {SaveEditMask(NewMask(1, k, DefaultKind)) : k \in [1..Len(words) -> BOOLEAN]}
  /\ mask = NewMask(1, <<>>, DefaultKind)
  /\ dumped = <<>>
  /\ op = "init"
  /\ arg = NoArg
  /\ ret = NoRet
  /\ view = NoView
  /\ cache = NoCache
  /\ ctl = NoCtl
  /\ job = NoJob
  /\ fmt = NoFmt
  /\ diar = NoDiar

\* EditorController.toggle_word(media_id, idx, keep); its last statement
\* emits requestPreviewBuild, whose handler build_preview schedules a
\* preview build; an IndexError ends the handler before the signal
DoToggleWord ==
  /\ \E idx \in (-(MaxWords + 1))..(MaxWords + 1), k \in BOOLEAN :
       LET r == ToggleWord(stored, words, 1, idx, k)
       IN /\ stored' = r.stored
          /\ mask' = r.mask
          /\ ret' = [NoRet EXCEPT !.raised = r.raised]
          /\ arg' = [NoArg EXCEPT !.idx = idx, !.keep = k, !.media_id = 1]
          /\ cache' = [cache EXCEPT !.scheduled = (r.raised = "" \/ cache.scheduled)]
  /\ op' = "toggle_word"
  /\ UNCHANGED <<words, dumped, view, diar, fmt, job, ctl>>

NextCtrl == DoToggleWord

SpecCtrl == InitCtrl /\ [][NextCtrl]_vars

(* ------------------------- speaker diarization ------------------------ *)
\* times are integers in eighths of a second (exact in binary floating point)
Step == 4          \* current_time += 0.5
Near == 8          \* abs(closest_time - current_time) < 1.0

Abs(x) == IF x < 0 THEN -x ELSE x

\* labels the diarizer gives its tracks
Labels == {"SPEAKER_00", "SPEAKER_01"}

\* label_str.removeprefix("SPEAKER_")
RemovePrefix(label) ==
  CASE label = "SPEAKER_00" -> "00"
    [] label = "SPEAKER_01" -> "01"
    [] OTHER -> label

RECURSIVE InsertByStart(_, _, _)
\* position of x in a list kept sorted by start: after every entry
\* whose start is not greater (sorted is stable)
InsertByStart(sorted, x, i) ==
  IF i > Len(sorted) \/ sorted[i].s > x.s
  THEN SubSeq(sorted, 1, i - 1) \o <<x>> \o SubSeq(sorted, i, Len(sorted))
  ELSE InsertByStart(sorted, x, i + 1)

RECURSIVE TurnsLoop(_, _, _)
TurnsLoop(tracks, i, turns) ==
  IF i > Len(tracks) THEN turns
  ELSE TurnsLoop(tracks, i + 1,
         InsertByStart(turns, [s |-> tracks[i].s, e |-> tracks[i].e,
                               speaker |-> RemovePrefix(tracks[i].label)], 1))

\* _annotation_to_turns: one turn per track, prefix stripped, sorted by start
AnnotationToTurns(tracks) == TurnsLoop(tracks, 1, <<>>)

\* a map in which a key keeps the speaker that stamped it first
MapPutKeep(map, t, spk) ==
  IF \E i \in 1..Len(map) : map[i].t = t THEN map
  ELSE Append(map, [t |-> t, spk |-> spk])

\* speaker_map[t] = spk on an insertion-ordered dict: an existing key keeps
\* its position and gets the new value, a new key goes last
MapPut(map, t, spk) ==
  IF \E i \in 1..Len(map) : map[i].t = t
  THEN [i \in 1..Len(map) |-> IF map[i].t = t THEN [t |-> t, spk |-> spk] ELSE map[i]]
  ELSE Append(map, [t |-> t, spk |-> spk])

RECURSIVE Stamp(_, _, _, _)
\* while current_time < end_time: speaker_map[current_time] = speaker
Stamp(map, t, e, spk) ==
  IF t < e THEN Stamp(MapPut(map, t, spk), t + Step, e, spk) ELSE map

RECURSIVE SpeakerMapLoop(_, _, _)
SpeakerMapLoop(tracks, i, map) ==
  IF i > Len(tracks) THEN map
  ELSE SpeakerMapLoop(tracks, i + 1,
         Stamp(map, tracks[i].s, tracks[i].e, RemovePrefix(tracks[i].label)))

\* the time -> speaker map of the fallback, built in itertracks order
SpeakerMap(tracks) == SpeakerMapLoop(tracks, 1, <<>>)

RECURSIVE ClosestLoop(_, _, _, _)
ClosestLoop(map, t, i, best) ==
  IF i > Len(map) THEN best
  ELSE ClosestLoop(map, t, i + 1,
         IF best = 0 \/ Abs(map[i].t - t) < Abs(map[best].t - t) THEN i ELSE best)

\* min(speaker_map.keys(), key=|x - t|, default=None): the position of the
\* first key at the least distance, 0 for None
Closest(map, t) == ClosestLoop(map, t, 1, 0)

\* a tick that also votes for a key exactly one second away
IsNearInclusive(map, c, t) == c # 0 /\ Abs(map[c].t - t) <= Near

\* closest_time is not None and abs(closest_time - current_time) < 1.0
IsNear(map, c, t) == c # 0 /\ Abs(map[c].t - t) < Near

\* speaker_counts[speaker] = speaker_counts.get(speaker, 0) + 1
CountVote(counts, spk) ==
  IF \E i \in 1..Len(counts) : counts[i].spk = spk
  THEN [i \in 1..Len(counts) |->
          IF counts[i].spk = spk THEN [spk |-> spk, n |-> counts[i].n + 1] ELSE counts[i]]
  ELSE Append(counts, [spk |-> spk, n |-> 1])

RECURSIVE WalkSegment(_, _, _, _)
\* the tick walk of one segment: speaker_counts in insertion order
WalkSegment(map, t, e, counts) ==
  IF t < e
  THEN LET c == Closest(map, t)
       IN WalkSegment(map, t + Step, e,
            IF IsNear(map, c, t) THEN CountVote(counts, map[c].spk) ELSE counts)
  ELSE counts

RECURSIVE MostCommonLoopLast(_, _, _)
MostCommonLoopLast(counts, i, best) ==
  IF i > Len(counts) THEN counts[best].spk
  ELSE MostCommonLoopLast(counts, i + 1, IF counts[i].n >= counts[best].n THEN i ELSE best)

\* a maximum that keeps the last of several equal counts
MostCommonLast(counts) == MostCommonLoopLast(counts, 2, 1)

RECURSIVE MostCommonLoop(_, _, _)
MostCommonLoop(counts, i, best) ==
  IF i > Len(counts) THEN counts[best].spk
  ELSE MostCommonLoop(counts, i + 1, IF counts[i].n > counts[best].n THEN i ELSE best)

\* max(speaker_counts.items(), key=count)[0]: the first entry of greatest count
MostCommon(counts) == MostCommonLoop(counts, 2, 1)

\* the label the fallback gives one segment
FallbackSpeaker(map, seg) ==
  LET counts == WalkSegment(map, seg.s, seg.e, <<>>)
  IN IF counts # <<>> THEN MostCommon(counts) ELSE "SPEAKER_UNKNOWN"

\* the fallback voting over all segments
FallbackVoting(tracks, segs) ==
  LET map == SpeakerMap(tracks)
  IN [i \in 1..Len(segs) |-> FallbackSpeaker(map, segs[i])]

\* merge_into_single_speaker
MergeIntoSingleSpeaker(segs) == [i \in 1..Len(segs) |-> "SPEAKER_1"]

Overlap(turn, seg) == Min(turn.e, seg.e) - Max(turn.s, seg.s)

\* whisperx.assign_word_speakers when it succeeds: every segment comes back,
\* labelled with the turn of greatest overlap, unlabelled ("") without overlap
AssignWordSpeakers(turns, segs) ==
  [i \in 1..Len(segs) |->
     IF \E j \in 1..Len(turns) : Overlap(turns[j], segs[i]) > 0
     THEN LET j == CHOOSE j \in 1..Len(turns) :
                     /\ \A k \in 1..Len(turns) :
                          Overlap(turns[k], segs[i]) <= Overlap(turns[j], segs[i])
                     /\ \A k \in 1..(j - 1) :
                          Overlap(turns[k], segs[i]) < Overlap(turns[j], segs[i])
          IN turns[j].speaker
     ELSE ""]

\* diarize() whose outer try has no handler: a failure of the model load or
\* of the diarizer call reaches the caller
DiarizeNoOuter(load, call, align, dbg, tracks, segs) ==
  IF load = "raises" \/ call = "raises"
  THEN [path |-> "raised", speakers |-> <<>>,
        progress |-> IF load = "raises" THEN <<>> ELSE <<70>>]
  ELSE LET turns == AnnotationToTurns(tracks)
       IN IF dbg /\ segs # <<>> /\ turns = <<>>
          THEN [path |-> "raised", speakers |-> <<>>, progress |-> <<70>>]
          ELSE IF turns # <<>> /\ align = "ok"
               THEN [path |-> "primary", speakers |-> AssignWordSpeakers(turns, segs),
                     progress |-> <<70, 80, 90>>]
               ELSE [path |-> "fallback", speakers |-> FallbackVoting(tracks, segs),
                     progress |-> <<70, 80, 90>>]

\* diarize(): load the model, run the diarizer, convert to turns, (debug
\* logging reads speaker_turns[0]), align; any failure of the alignment,
\* the empty data frame of an annotation without turns included, enters the
\* voting fallback; any other failure enters single-speaker mode
Diarize(load, call, align, dbg, tracks, segs) ==
  IF load = "raises"
  THEN [path |-> "single", speakers |-> MergeIntoSingleSpeaker(segs), progress |-> <<>>]
  ELSE IF call = "raises"
  THEN [path |-> "single", speakers |-> MergeIntoSingleSpeaker(segs), progress |-> <<70>>]
  ELSE LET turns == AnnotationToTurns(tracks)
       IN IF dbg /\ segs # <<>> /\ turns = <<>>
          THEN [path |-> "single", speakers |-> MergeIntoSingleSpeaker(segs),
                progress |-> <<70>>]
          ELSE IF turns # <<>> /\ align = "ok"
               THEN [path |-> "primary", speakers |-> AssignWordSpeakers(turns, segs),
                     progress |-> <<70, 80, 90>>]
               ELSE [path |-> "fallback", speakers |-> FallbackVoting(tracks, segs),
                     progress |-> <<70, 80, 90>>]

\* tracks of an annotation: non-empty windows within the time bound
TrackSet(times) == {r \in [s : times, e : times, label : Labels] : r.s < r.e}

\* transcribed segments: any start and end, start >= end included
SegSet(times) == {[s |-> a, e |-> b] : a \in times, b \in times}

\* itertracks yields the tracks in (start, end) order
InTrackOrder(a, b) == a.s < b.s \/ (a.s = b.s /\ a.e <= b.e)

\* the half-second grid within the time bound
CoarseTimes == {x \in 0..MaxDTime : x % Step = 0 /\ x <= 2 * Step}

OutcomeSet == {"ok", "raises"}

\* every combination of collaborator outcomes, with or without EZCLIP_DBG,
\* an annotation of at most one track and at most two segments
InitDiarize ==
  /\ diar \in {[NoDiar EXCEPT !.tracks = tr, !.segs = sg, !.load = l, !.call = c,
                              !.align = a, !.dbg = g] :
                 tr \in {<<>>} \cup {<<x>> : x \in TrackSet(CoarseTimes)},
                 sg \in {<<>>} \cup {<<x>> : x \in SegSet(CoarseTimes)}
                        \cup {<<x, y>> : x \in SegSet(CoarseTimes), y \in SegSet(CoarseTimes)},
                 l \in OutcomeSet, c \in OutcomeSet, a \in OutcomeSet, g \in BOOLEAN}
  /\ words = <<>>
  /\ stored = <<>>
  /\ mask = NewMask(1, <<>>, DefaultKind)
  /\ dumped = <<>>
  /\ op = "init"
  /\ arg = NoArg
  /\ ret = NoRet
  /\ view = NoView
  /\ cache = NoCache
  /\ ctl = NoCtl
  /\ job = NoJob
  /\ fmt = NoFmt

\* annotations of at most two tracks in itertracks order; the diarizer
\* numbers its speakers from SPEAKER_00
TrackLists ==
  {tr \in {<<>>} \cup {<<x>> : x \in TrackSet(0..MaxDTime)}
                \cup {p \in TrackSet(0..MaxDTime) \X TrackSet(0..MaxDTime) :
                        InTrackOrder(p[1], p[2])} :
     tr # <<>> => tr[1].label = "SPEAKER_00"}

\* the recording starts at time 0 with the first track or the segment
StartsAtZero(tr, sg) == IF tr = <<>> THEN sg.s = 0 ELSE Min(tr[1].s, sg.s) = 0

\* the diarizer ran and the aligner failed: at most two tracks and one
\* segment on the fine time grid
InitVote ==
  /\ diar \in {[NoDiar EXCEPT !.tracks = c[1], !.segs = <<c[2]>>, !.load = "ok",
                              !.call = "ok", !.align = "raises"] :
                 c \in {c \in TrackLists \X SegSet(0..MaxDTime) : StartsAtZero(c[1], c[2])}}
  /\ words = <<>>
  /\ stored = <<>>
  /\ mask = NewMask(1, <<>>, DefaultKind)
  /\ dumped = <<>>
  /\ op = "init"
  /\ arg = NoArg
  /\ ret = NoRet
  /\ view = NoView
  /\ cache = NoCache
  /\ ctl = NoCtl
  /\ job = NoJob
  /\ fmt = NoFmt

\* one call of diarize(audio_path, transcription_segments)
DoDiarize ==
  /\ op = "init"
  /\ LET r == Diarize(diar.load, diar.call, diar.align, diar.dbg, diar.tracks, diar.segs)
     IN diar' = [diar EXCEPT !.path = r.path, !.speakers = r.speakers,
                             !.progress = r.progress]
  /\ op' = "diarize"
  /\ UNCHANGED <<words, mask, stored, dumped, arg, ret, view, fmt, job, ctl, cache>>

NextDiarize == DoDiarize

SpecDiarize == InitDiarize /\ [][NextDiarize]_vars

SpecVote == InitVote /\ [][NextDiarize]_vars

(* ------------------------- transcript formatter ----------------------- *)
\* current_speaker = None: equal to no speaker string
NoSpeaker == "<None>"

FmtSpeakers == {"A", "B"}

\* segment texts: empty, whitespace only, bare, and padded with whitespace
FmtTexts == {"", " ", "foo", " bar "}

\* two start times: segments start together or one after the other
FmtStarts == {0, 1}

\* str.strip() on the texts the formatter is given
Strip(text) ==
  CASE text = " " -> ""
    [] text = " bar " -> "bar"
    [] OTHER -> text

RECURSIVE InsertSegment(_, _, _)
\* position of seg in a list sorted by start, after every entry whose start
\* is not greater (sorted is stable)
InsertSegment(sorted, seg, i) ==
  IF i > Len(sorted) \/ sorted[i].start > seg.start
  THEN SubSeq(sorted, 1, i - 1) \o <<seg>> \o SubSeq(sorted, i, Len(sorted))
  ELSE InsertSegment(sorted, seg, i + 1)

RECURSIVE SortLoop(_, _, _)
SortLoop(segs, i, sorted) ==
  IF i > Len(segs) THEN sorted
  ELSE SortLoop(segs, i + 1, InsertSegment(sorted, segs[i], 1))

\* a formatter that takes the segments in the given order
SortSegmentsNone(segs) == segs

\* sorted(segments, key=lambda s: s["start"])
SortSegments(segs) == SortLoop(segs, 1, <<>>)

RECURSIVE Join(_, _)
\* sep.join(pieces)
Join(pieces, sep) ==
  IF pieces = <<>> THEN ""
  ELSE IF Len(pieces) = 1 THEN pieces[1]
  ELSE pieces[1] \o sep \o Join(Tail(pieces), sep)

\* flush_buffer: a non-empty buffer becomes one paragraph (the pieces are
\* stripped and non-empty, so the final strip changes nothing)
FlushBuffer(out, speaker, buffer) ==
  IF buffer # <<>>
  THEN Append(out, "**" \o speaker \o ":** " \o Join(buffer, " "))
  ELSE out

\* the objects of one call: the caller's list (arg), the list the local
\* name `segments` refers to, which is the caller's list until the name is
\* rebound, and the accumulators, created empty by every call
NewFrame(segs) ==
  [arg |-> segs, rebound |-> FALSE, segments |-> <<>>,
   output_paragraphs |-> <<>>, current_buffer |-> <<>>, current_speaker |-> NoSpeaker]

\* the list the local name `segments` refers to
Segments(f) == IF f.rebound THEN f.segments ELSE f.arg

\* a formatter that sorts with segments.sort(key=...): the list the name
\* refers to is reordered in place
SortInPlace(f) ==
  IF f.rebound THEN [f EXCEPT !.segments = SortSegments(f.segments)]
  ELSE [f EXCEPT !.arg = SortSegments(f.arg)]

\* segments = sorted(segments, key=...): sorted builds a new list and the
\* local name is rebound to it
SortedAssign(f) ==
  [f EXCEPT !.segments = SortSegments(Segments(f)), !.rebound = TRUE]

\* flush_buffer on the accumulators of the call
Flush(f) ==
  [f EXCEPT !.output_paragraphs = FlushBuffer(@, f.current_speaker, f.current_buffer),
            !.current_buffer = <<>>]

RECURSIVE MarkdownLoop(_, _)
\* the loop over the list `segments` refers to: seg.get and str.strip read
\* the segment and build new strings, the writes go to the accumulators
MarkdownLoop(f, i) ==
  IF i > Len(Segments(f)) THEN f
  ELSE LET seg     == Segments(f)[i]
           speaker == seg.speaker
           text    == Strip(seg.text)
           f1      == IF speaker # f.current_speaker
                      THEN [(IF i > 1 \/ f.current_buffer # <<>> THEN Flush(f) ELSE f)
                              EXCEPT !.current_speaker = speaker]
                      ELSE f
           f2      == IF text # "" THEN [f1 EXCEPT !.current_buffer = Append(@, text)]
                      ELSE f1
       IN MarkdownLoop(f2, i + 1)

\* the frame of a call of segments_to_markdown(segs) when it returns
FormatCall(segs) ==
  LET f == NewFrame(segs)
  IN IF Segments(f) = <<>> THEN f
     ELSE Flush(MarkdownLoop(SortedAssign(f), 1))

\* segments_to_markdown: the string returned
SegmentsToMarkdown(segs) == Join(FormatCall(segs).output_paragraphs, "\n\n")

\* the caller's list when the call has returned
ArgAfter(segs) == FormatCall(segs).arg

FmtSegSet == [start : FmtStarts, speaker : FmtSpeakers, text : FmtTexts]

InitFormat ==
  /\ fmt \in {[NoFmt EXCEPT !.segs = s] : s \in SeqsUpTo(FmtSegSet, MaxSegs)}
  /\ words = <<>>
  /\ stored = <<>>
  /\ mask = NewMask(1, <<>>, DefaultKind)
  /\ dumped = <<>>
  /\ op = "init"
  /\ arg = NoArg
  /\ ret = NoRet
  /\ view = NoView
  /\ cache = NoCache
  /\ ctl = NoCtl
  /\ job = NoJob
  /\ diar = NoDiar

\* one call of segments_to_markdown on the caller's list, as the call
\* before left it (at most two calls)
DoFormat ==
  /\ fmt.calls < 2
  /\ fmt' = [segs |-> ArgAfter(fmt.segs), out |-> SegmentsToMarkdown(fmt.segs),
             prev |-> fmt.out, calls |-> fmt.calls + 1]
  /\ op' = "format"
  /\ UNCHANGED <<words, mask, stored, dumped, arg, ret, view, diar, job, ctl, cache>>

NextFormat == DoFormat

SpecFormat == InitFormat /\ [][NextFormat]_vars

(* ------------------- transcription job: worker and UI ----------------- *)
\* signals waiting for the UI thread, and deletes of the media row
MaxPending == 2
MaxDeletes == 1

\* config.MAX_CONCURRENT_JOBS, imported by pipeline_ctrl.py
MAX_CONCURRENT_JOBS == 2

\* progress values are integers in half percents: 82.5 % is 165
Pct(x) == 2 * x

\* transcribe_progress: scaled = 5 + (p * 0.6)
TranscribeScaled(p) == Pct(5) + (6 * p) \div 5

\* a diarize_progress that adds the diarizer's percentage unscaled
DiarizeUnscaled(p) == Pct(65) + Pct(p)

\* diarize_progress: scaled = 65 + (p * 0.25)
DiarizeScaled(p) == Pct(65) + p \div 2

\* positional parameters of segments_to_markdown(segments)
FormatArity == 1

\* positional arguments of the call segments_to_markdown(segments, speaker_map)
FormatCallArgs == 2

\* a call with a number of positional arguments the function does not take
\* raises TypeError
FormatCallRaises == FormatCallArgs # FormatArity

\* if progress_cb: progress_cb(v); db.update_progress(job_id, v)
Report(v) == <<[k |-> "emit", v |-> v], [k |-> "db_progress", v |-> v]>>

RECURSIVE Reports(_, _)
\* the reports of a collaborator's progress callbacks p, scaled
Reports(ps, scaled) ==
  IF ps = <<>> THEN <<>>
  ELSE Report(IF scaled = "diarize" THEN DiarizeScaled(ps[1]) ELSE TranscribeScaled(ps[1]))
       \o Reports(Tail(ps), scaled)

\* except Exception: db.set_error(job_id, str(e)); raise PipelineError
FailTail == <<[k |-> "db_error", v |-> 0], [k |-> "raise", v |-> 0]>>

\* the transcribed segments and the diarizer's annotation of a job
JobSegs(n) == [i \in 1..n |-> [s |-> Step * (i - 1), e |-> Step * i]]
JobTracks == <<[s |-> 0, e |-> Step, label |-> "SPEAKER_00"]>>

DzOutcomes == {"ok", "aligner", "diarizer", "load", "raises"}

\* the progress values diarize() passes to its callback for an outcome of
\* its collaborators; a diarize() that raises at once passes none
DzProgress(dz, n) ==
  IF dz = "raises" THEN <<>>
  ELSE Diarize(IF dz = "load" THEN "raises" ELSE "ok",
               IF dz = "diarizer" THEN "raises" ELSE "ok",
               IF dz = "aligner" THEN "raises" ELSE "ok",
               FALSE, JobTracks, JobSegs(n)).progress

TransOutcomes == {"ok", "load_raises", "transcribe_raises", "align_raises"}

\* the progress values transcribe() passes to its callback before it
\* returns or raises
TransProgress(trans) ==
  CASE trans = "load_raises" -> <<>>
    [] trans = "transcribe_raises" -> <<5>>
    [] trans = "align_raises" -> <<5, 30>>
    [] OTHER -> <<5, 30, 60>>

\* process_file after diarization: progress 90, format, save, DONE, 100
AfterDiarization ==
  Report(Pct(90))
  \o (IF FormatCallRaises THEN FailTail
      ELSE <<[k |-> "save", v |-> 0], [k |-> "db_status", v |-> "done"]>>
           \o Report(Pct(100)) \o <<[k |-> "return", v |-> 0]>>)

\* process_file as the sequence of its effects on the callback and the
\* database, for given outcomes of its collaborators
WorkerScript(j) ==
  IF ~j.exists THEN <<[k |-> "raise", v |-> 0]>>
  ELSE <<[k |-> "db_insert", v |-> 0], [k |-> "db_status", v |-> "running"]>>
       \o (IF j.extract = "raises" THEN FailTail
           ELSE Report(Pct(5))
                \o Reports(TransProgress(j.trans), "transcribe")
                \o (IF j.trans # "ok" THEN FailTail
                    ELSE Report(Pct(65))
                         \o (IF j.dzset THEN Reports(DzProgress(j.dz, j.nseg), "diarize")
                             ELSE <<>>)
                         \o AfterDiarization))

\* the id PipelineController.enqueue got from insert_media for the job
CtlId == 1

\* the outcome of a collaborator or a setting is drawn only for a job that
\* gets as far as using it
Reached(j) ==
  /\ ~j.exists => j.extract = "ok"
  /\ (~j.exists \/ j.extract # "ok") => j.trans = "ok"
  /\ (~j.exists \/ j.extract # "ok" \/ j.trans # "ok") => (~j.dzset /\ j.nseg = 1)
  /\ ~j.dzset => j.dz = "ok"

\* the outcomes of the collaborators of one job
JobOutcomes ==
  {j \in {[NoJob EXCEPT !.exists = x, !.extract = e, !.trans = tr, !.dzset = ds,
                        !.dz = dz, !.nseg = n] :
            x \in BOOLEAN, e \in OutcomeSet, tr \in TransOutcomes,
            ds \in BOOLEAN, dz \in DzOutcomes, n \in 1..2} : Reached(j)}

RECURSIVE LastProgress(_, _)
\* the progress the first i instructions of a script leave in the row, 0
\* (the column default) if they write none
LastProgress(script, i) ==
  IF i = 0 THEN 0
  ELSE IF script[i].k = "db_progress" THEN script[i].v
       ELSE LastProgress(script, i - 1)

\* the media_files row of the path when the job is enqueued: DB.insert_media
\* is INSERT OR IGNORE by filepath, so the row is a new one (status 'queued',
\* progress 0) or the row an ended job on the same path left: here a job
\* with the same outcomes, with the progress it reached and the status
\* ERROR, or RUNNING when the late write of start_next was the last one
RowsAtStart(j) ==
  {[status |-> "queued", progress |-> 0]}
  \cup {[status |-> s, progress |-> LastProgress(WorkerScript(j), Len(WorkerScript(j)))] :
          s \in {"running", "error"}}

\* start_next has handed the worker to the thread pool (line 137) and has
\* not yet written the RUNNING status (line 140); the row of the job is
\* there, or was deleted while the job waited in the queue
InitJob ==
  /\ job \in UNION {{[j EXCEPT !.wpc = 1, !.status = r.status, !.progress = r.progress,
                                !.row = CtlId, !.last = CtlId, !.ui = "start_next",
                                !.running = {CtlId}] : r \in RowsAtStart(j)} :
                      j \in JobOutcomes}
             \cup {[j EXCEPT !.wpc = 1, !.row = 0, !.last = CtlId, !.ui = "start_next",
                             !.running = {CtlId}] : j \in JobOutcomes}
  /\ words = <<>>
  /\ stored = <<>>
  /\ mask = NewMask(1, <<>>, DefaultKind)
  /\ dumped = <<>>
  /\ op = "init"
  /\ arg = NoArg
  /\ ret = NoRet
  /\ view = NoView
  /\ cache = NoCache
  /\ ctl = NoCtl
  /\ diar = NoDiar
  /\ fmt = NoFmt

\* an UPDATE ... WHERE id = ? changes the row if the row with that id exists
RowIs(j, id) == id # 0 /\ j.row = id

\* DB.insert_media for the path of the job: the id of the row of the path,
\* or a new row with the next id (AUTOINCREMENT) and the column defaults
InsertRow(j) ==
  IF j.row # 0 THEN j
  ELSE [j EXCEPT !.row = j.last + 1, !.last = j.last + 1, !.status = "queued",
                 !.progress = 0]

\* the effect of one step of process_file on the job, for the worker w: "a"
\* is the worker of the job, "b" a second worker on the same path; the
\* signals carry the id the controller gave the worker
WorkerEffect(j, ins, w) ==
  LET id  == IF w = "a" THEN j.wid ELSE j.oid
      sid == IF w = "a" THEN CtlId ELSE j.eid
  IN CASE ins.k = "db_insert" ->
            IF w = "a" THEN [InsertRow(j) EXCEPT !.wid = InsertRow(j).row]
            ELSE [InsertRow(j) EXCEPT !.oid = InsertRow(j).row]
       [] ins.k = "db_status" -> IF RowIs(j, id) THEN [j EXCEPT !.status = ins.v] ELSE j
       [] ins.k = "emit" ->
            [j EXCEPT !.reported = IF w = "a" THEN Append(@, ins.v) ELSE @,
                      !.sigq = Append(@, [k |-> "progress", v |-> ins.v, id |-> sid])]
       [] ins.k = "db_progress" -> IF RowIs(j, id) THEN [j EXCEPT !.progress = ins.v] ELSE j
       [] ins.k = "db_error" -> IF RowIs(j, id) THEN [j EXCEPT !.status = "error"] ELSE j
       [] ins.k = "save" -> [j EXCEPT !.saved = IF w = "a" THEN j.nseg ELSE @]
       [] ins.k = "return" ->
            [j EXCEPT !.result = IF w = "a" THEN "returned" ELSE @,
                      !.sigq = Append(@, [k |-> "finished", v |-> 0, id |-> sid])]
       [] OTHER ->
            [j EXCEPT !.result = IF w = "a" THEN "PipelineError" ELSE @,
                      !.sigq = Append(@, [k |-> "error", v |-> 0, id |-> sid])]

\* a worker signals only while fewer than MaxPending signals wait for the
\* UI thread
CanSignal(j, ins) ==
  ins.k \in {"emit", "return", "raise"} => Len(j.sigq) < MaxPending

\* TranscriptionWorker.run: the next step of process_file; its return or
\* PipelineError is signalled to the UI thread
WorkerStep ==
  /\ job.ui # ""
  /\ job.wpc <= Len(WorkerScript(job))
  /\ CanSignal(job, WorkerScript(job)[job.wpc])
  /\ job' = [WorkerEffect(job, WorkerScript(job)[job.wpc], "a") EXCEPT !.wpc = job.wpc + 1]
  /\ op' = "worker"
  /\ UNCHANGED <<words, mask, stored, dumped, arg, ret, view, diar, fmt, ctl, cache>>

\* TranscriptionWorker.run of the second worker on the path, once started
OtherWorkerStep ==
  /\ job.opc >= 1
  /\ job.opc <= Len(WorkerScript(job))
  /\ CanSignal(job, WorkerScript(job)[job.opc])
  /\ job' = [WorkerEffect(job, WorkerScript(job)[job.opc], "b") EXCEPT !.opc = job.opc + 1]
  /\ op' = "other_worker"
  /\ UNCHANGED <<words, mask, stored, dumped, arg, ret, view, diar, fmt, ctl, cache>>

\* PipelineController.start_next, line 140: db.set_status(job_id, RUNNING)
\* for the worker it has just started
UiSetRunning ==
  /\ job.ui \in {"start_next", "start_other"}
  /\ job' = [job EXCEPT !.status = IF RowIs(job, IF job.ui = "start_next" THEN CtlId
                                                 ELSE job.eid)
                                   THEN "running" ELSE @,
                        !.ui = "loop"]
  /\ op' = "start_next"
  /\ UNCHANGED <<words, mask, stored, dumped, arg, ret, view, diar, fmt, ctl, cache>>

\* the effect of the UI thread's handler of one queued signal:
\* running_jobs.remove raises KeyError for an id that is not in the set and
\* the completion handler ends there; no job waits in the queue for the
\* start_next at its end
UiEffect(j, sig) ==
  CASE sig.k = "progress" ->
         IF RowIs(j, sig.id) THEN [j EXCEPT !.progress = sig.v] ELSE j
    [] sig.id \notin j.running -> j
    [] sig.k = "finished" -> [j EXCEPT !.running = @ \ {sig.id}]
    [] OTHER -> [j EXCEPT !.running = @ \ {sig.id},
                          !.status = IF RowIs(j, sig.id) THEN "error" ELSE @]

\* the UI thread's event loop delivers the oldest queued signal to
\* _on_progress, _on_job_finished or _on_job_error
UiHandle ==
  /\ job.ui = "loop"
  /\ job.sigq # <<>>
  /\ job' = [UiEffect(job, Head(job.sigq)) EXCEPT !.sigq = Tail(job.sigq)]
  /\ op' = "ui_handle"
  /\ UNCHANGED <<words, mask, stored, dumped, arg, ret, view, diar, fmt, ctl, cache>>

\* LibraryController.delete -> DB.delete_media, called on the UI thread for
\* the row of the path: the row is gone, with its status and progress
DoDeleteMedia ==
  /\ job.ui = "loop"
  /\ job.row # 0
  /\ job.dels < MaxDeletes
  /\ job' = [job EXCEPT !.row = 0, !.status = "", !.progress = 0, !.dels = @ + 1]
  /\ op' = "delete_media"
  /\ UNCHANGED <<words, mask, stored, dumped, arg, ret, view, diar, fmt, ctl, cache>>

\* PipelineController.enqueue of the path of the job, with the same
\* settings, while the job is on its way, once: insert_media finds or
\* creates the row, the queue is empty, so start_next starts a second
\* worker at once if running_jobs has a free slot, up to line 137
DoEnqueueSame ==
  /\ job.ui = "loop"
  /\ job.opc = 0
  /\ Cardinality(job.running) < MAX_CONCURRENT_JOBS
  /\ job' = [InsertRow(job) EXCEPT !.eid = InsertRow(job).row,
                                   !.running = @ \cup {InsertRow(job).row},
                                   !.opc = 1, !.ui = "start_other"]
  /\ op' = "enqueue"
  /\ UNCHANGED <<words, mask, stored, dumped, arg, ret, view, diar, fmt, ctl, cache>>

NextJob ==
  WorkerStep \/ OtherWorkerStep \/ UiSetRunning \/ UiHandle \/ DoDeleteMedia
  \/ DoEnqueueSame

SpecJob == InitJob /\ [][NextJob]_vars

\* process_file called directly with a callback that records the values it
\* is given, as tests/test_pipeline_unit.py calls it: the database has no
\* row for the path, or the row an earlier job left
InitProcess ==
  /\ job \in UNION {{[j EXCEPT !.wpc = 1, !.status = r.status, !.progress = r.progress,
                                !.row = CtlId, !.last = CtlId] : r \in RowsAtStart(j)}
                      \cup {[j EXCEPT !.wpc = 1]} :
                      j \in JobOutcomes}
  /\ words = <<>>
  /\ stored = <<>>
  /\ mask = NewMask(1, <<>>, DefaultKind)
  /\ dumped = <<>>
  /\ op = "init"
  /\ arg = NoArg
  /\ ret = NoRet
  /\ view = NoView
  /\ cache = NoCache
  /\ ctl = NoCtl
  /\ diar = NoDiar
  /\ fmt = NoFmt

\* the next step of process_file; the callback records the value and no
\* signal is queued
DoProcessFile ==
  /\ job.wpc <= Len(WorkerScript(job))
  /\ job' = [WorkerEffect(job, WorkerScript(job)[job.wpc], "a")
                EXCEPT !.wpc = job.wpc + 1, !.sigq = <<>>]
  /\ op' = "process_file"
  /\ UNCHANGED <<words, mask, stored, dumped, arg, ret, view, diar, fmt, ctl, cache>>

NextProcess == DoProcessFile

SpecProcess == InitProcess /\ [][NextProcess]_vars

(* ----------------------- PipelineController queue -------------------- *)
\* the media paths the user enqueues, and the number of enqueue calls
MaxPaths == 2
MaxEnq == 3

\* DB.insert_media: INSERT OR IGNORE by filepath; the id of a known path is
\* the id it was given first
InsertMedia(path) == path

\* PipelineController.start_next: start the oldest queued job if a slot of
\* running_jobs is free; the started worker is kept with its enqueue number
StartNext(c) ==
  IF Cardinality(c.running) >= MAX_CONCURRENT_JOBS \/ c.queue = <<>> THEN c
  ELSE [c EXCEPT !.queue = Tail(@),
                 !.running = @ \cup {Head(c.queue).id},
                 !.active = @ \cup {Head(c.queue)},
                 !.started = Append(@, Head(c.queue).n)]

\* PipelineController.enqueue
Enqueue(c, path) ==
  StartNext([c EXCEPT !.queue = Append(@, [id |-> InsertMedia(path), n |-> c.enq + 1]),
                      !.enq = @ + 1])

\* _on_job_finished / _on_job_error: running_jobs.remove(job_id) raises
\* KeyError for an id that is not in the set and the handler ends there;
\* otherwise the handler goes on to start_next
OnJobDone(c, job_id) ==
  IF job_id \notin c.running THEN [c EXCEPT !.failed = @ + 1]
  ELSE StartNext([c EXCEPT !.running = @ \ {job_id}])

\* PipelineController.__init__: an empty queue and no running job
InitQueue ==
  /\ ctl = NoCtl
  /\ words = <<>>
  /\ stored = <<>>
  /\ mask = NewMask(1, <<>>, DefaultKind)
  /\ dumped = <<>>
  /\ op = "init"
  /\ arg = NoArg
  /\ ret = NoRet
  /\ view = NoView
  /\ cache = NoCache
  /\ diar = NoDiar
  /\ fmt = NoFmt
  /\ job = NoJob

DoEnqueue ==
  /\ ctl.enq < MaxEnq
  /\ \E path \in 1..MaxPaths : ctl' = Enqueue(ctl, path)
  /\ op' = "enqueue"
  /\ UNCHANGED <<words, mask, stored, dumped, arg, ret, view, diar, fmt, job, cache>>

\* TranscriptionWorker.run ends: the worker signals finished or error
DoWorkerSignal ==
  /\ \E w \in ctl.active, kind \in {"finished", "error"} :
        ctl' = [ctl EXCEPT !.active = @ \ {w},
                           !.sigq = Append(@, [id |-> w.id, n |-> w.n, kind |-> kind])]
  /\ op' = "signal"
  /\ UNCHANGED <<words, mask, stored, dumped, arg, ret, view, diar, fmt, job, cache>>

\* the UI thread delivers the oldest queued completion signal to its handler
DoCompletion ==
  /\ ctl.sigq # <<>>
  /\ ctl' = [OnJobDone(ctl, Head(ctl.sigq).id) EXCEPT !.sigq = Tail(ctl.sigq)]
  /\ op' = "completion"
  /\ UNCHANGED <<words, mask, stored, dumped, arg, ret, view, diar, fmt, job, cache>>

NextQueue == DoEnqueue \/ DoWorkerSignal \/ DoCompletion

SpecQueue == InitQueue /\ [][NextQueue]_vars

\* every started worker eventually signals, and the event loop eventually
\* delivers every queued signal
SpecQueueFair == SpecQueue /\ WF_vars(DoWorkerSignal) /\ WF_vars(DoCompletion)

(* --------------------- preview builds and clip cache ------------------ *)
\* a media with a transcript, an unedited or edited persisted mask and an
\* empty cache directory
InitPreview ==
  /\ words \in {StubWords(n) : n \in 1..MaxWords}
  /\ stored \in {<<>>} \cup
                {SaveEditMask(NewMask(1, k, DefaultKind)) : k \in [1..Len(words) -> BOOLEAN]}
  /\ mask = NewMask(1, <<>>, DefaultKind)
  /\ cache = NoCache
  /\ dumped = <<>>
  /\ op = "init"
  /\ arg = NoArg
  /\ ret = NoRet
  /\ view = NoView
  /\ diar = NoDiar
  /\ fmt = NoFmt
  /\ job = NoJob
  /\ ctl = NoCtl

\* EditorController.toggle_word, whose requestPreviewBuild signal runs
\* build_preview: the persisted mask is loaded again and handed to
\* PreviewRebuilder.schedule; an IndexError ends the handler before the signal
DoEditWord ==
  /\ \E idx \in (-(MaxWords + 1))..(MaxWords + 1), k \in BOOLEAN :
       LET r == ToggleWord(stored, words, 1, idx, k)
       IN /\ stored' = r.stored
          /\ ret' = [NoRet EXCEPT !.raised = r.raised]
          /\ arg' = [NoArg EXCEPT !.idx = idx, !.keep = k, !.media_id = 1]
          /\ IF r.raised = ""
             THEN /\ mask' = GetEditMask(r.stored, 1, Len(words))[1]
                  /\ cache' = [cache EXCEPT !.scheduled = TRUE]
             ELSE UNCHANGED <<mask, cache>>
  /\ op' = "toggle_word"
  /\ UNCHANGED <<words, dumped, view, diar, fmt, job, ctl>>

\* the debounce timer fires: PreviewRebuilder._build
DoTimerBuild ==
  /\ cache.scheduled
  /\ cache' = BuildPreview(cache, mask, words)
  /\ mask' = [mask EXCEPT !.ranges = BuildRanges(words, mask.keep, DefaultGlueGap)]
  /\ op' = "build_preview"
  /\ UNCHANGED <<words, stored, dumped, arg, ret, view, diar, fmt, job, ctl>>

NextPreview == DoEditWord \/ DoTimerBuild

SpecPreview == InitPreview /\ [][NextPreview]_vars

(* ====================== properties: serialisation ===================== *)
\* the span list in effect for a payload: data.get("remove", [])
SpansOf(json) == IF json.hasRemove THEN json.remove ELSE <<>>

\* 0-based index i lies inside some half-open span [s, e) of the list
InSomeSpan(i, spans) ==
  \E j \in 1..Len(spans) : spans[j][1] <= i /\ i < spans[j][2]

\* the loads under way reads back what the last dumps wrote, with
\* total_words = len(m.keep) and m's media_id
IsRoundTrip ==
  /\ op = "loads"
  /\ dumped # <<>>
  /\ arg.total = Len(dumped[1].keep)
  /\ arg.media_id = dumped[1].media_id

\* C1: round trip -- loads(m.media_id, m.dumps(), len(m.keep)) has the same
\* keep (same length, element-wise equal), media_id and kind as m.
C1_RoundTrip ==
  IsRoundTrip =>
    /\ Len(mask.keep) = Len(dumped[1].keep)
    /\ mask.keep = dumped[1].keep
    /\ mask.media_id = dumped[1].media_id
    /\ mask.kind = dumped[1].kind

C1_Witness ==
  /\ IsRoundTrip
  /\ dumped[1].keep = <<FALSE, TRUE, FALSE>>
  /\ dumped[1].kind = "mask-v2"
  /\ mask.keep = <<FALSE, TRUE, FALSE>>

\* C2: for every payload and every total_words, loads returns a mask with
\* len(keep) == total_words exactly (spans are clamped to [0, total_words]).
C2_LoadsLengthIsTotal ==
  op = "loads" => Len(mask.keep) = arg.total

\* C3: loads yields keep[i] == False exactly for the indices i < total_words
\* inside some decoded span [s, e), and True for every other index; without
\* a `remove` key every entry is True.
C3_LoadsExactlySpans ==
  op = "loads" =>
    /\ Len(mask.keep) >= arg.total
    /\ \A i \in 0..(Len(mask.keep) - 1) :
         mask.keep[i + 1] = ~(i < arg.total /\ InSomeSpan(i, SpansOf(stored[1])))

\* C4: the `remove` list of dumps is exactly the list of maximal runs of
\* False entries as half-open spans: each span non-empty and inside the
\* vector, ascending with end < next start, every False index in exactly one
\* span, no True index in any span; [T,F,F,T,T,F] gives [[1,3],[5,6]].
C4_DumpsMaximalRuns ==
  op = "dumps" =>
       LET r    == stored[1].remove
           keep == dumped[1].keep
       IN /\ Dumps(NewMask(1, <<TRUE, FALSE, FALSE, TRUE, TRUE, FALSE>>, DefaultKind)).remove
               = << <<1, 3>>, <<5, 6>> >>
          /\ stored[1].hasRemove
          /\ \A j \in 1..Len(r) : 0 <= r[j][1] /\ r[j][1] < r[j][2] /\ r[j][2] <= Len(keep)
          /\ \A j \in 1..(Len(r) - 1) : r[j][2] < r[j + 1][1]
          /\ \A i \in 0..(Len(keep) - 1) :
               Cardinality({j \in 1..Len(r) : r[j][1] <= i /\ i < r[j][2]})
                 = IF keep[i + 1] THEN 0 ELSE 1

C4_Witness ==
  /\ op = "dumps"
  /\ dumped[1].keep = <<FALSE, TRUE, FALSE>>
  /\ stored[1].remove = << <<0, 1>>, <<2, 3>> >>

(* ====================== properties: range building ==================== *)
Built == op = "build_ranges"

\* number of word/keep pairs build_ranges walks: zip(words, keep)
Zipped == Min(Len(words), Len(mask.keep))

\* C5: the ranges are ascending and pairwise non-overlapping: for consecutive
\* ranges (a,b),(c,d), a < c and b <= c (words ordered by start, start <= end,
\* possibly overlapping in time).
C5_RangesAscendingDisjoint ==
  Built =>
    \A j \in 1..(Len(mask.ranges) - 1) :
      /\ mask.ranges[j][1] < mask.ranges[j + 1][1]
      /\ mask.ranges[j][2] <= mask.ranges[j + 1][1]

\* C6: every kept word's interval [start, end] is contained in one of the
\* returned ranges.
C6_KeptWordsCovered ==
  Built =>
    \A i \in 1..Zipped :
      mask.keep[i] =>
        \E j \in 1..Len(mask.ranges) :
          mask.ranges[j][1] <= words[i].s /\ words[i].e <= mask.ranges[j][2]

\* the last range of a non-empty range list
LastRange(rs) == rs[Len(rs)]

\* C7: glue boundary -- two consecutive kept words with
\* next.start - prev.end == glue_gap are merged into one range
\* (prev.start, next.end); with a larger gap they give two ranges.  Stated
\* for a two-word sequence, and for the last two words of any sequence
\* against the ranges of the sequence without its last word.
C7_GlueBoundary ==
  Built =>
    LET n   == Zipped
        g   == arg.glue_gap
    IN (n >= 2 /\ mask.keep[n - 1] /\ mask.keep[n]) =>
         LET gap  == words[n].s - words[n - 1].e
             prev == BuildRanges(SubSeq(words, 1, n - 1),
                                 SubSeq(mask.keep, 1, n - 1), g)
         IN /\ gap = g =>
                 /\ Len(mask.ranges) = Len(prev)
                 /\ SubSeq(mask.ranges, 1, Len(prev) - 1) = SubSeq(prev, 1, Len(prev) - 1)
                 /\ LastRange(mask.ranges) = <<LastRange(prev)[1], words[n].e>>
                 /\ n = 2 => mask.ranges = << <<words[1].s, words[2].e>> >>
            /\ gap > g =>
                 /\ mask.ranges = Append(prev, <<words[n].s, words[n].e>>)
                 /\ n = 2 => mask.ranges = << <<words[1].s, words[1].e>>,
                                              <<words[2].s, words[2].e>> >>

C7_Witness ==
  /\ Built
  /\ Len(words) = 2
  /\ mask.keep = <<TRUE, TRUE>>
  /\ arg.glue_gap = 1
  /\ words[2].s - words[1].e = 1
  /\ mask.ranges = << <<words[1].s, words[2].e>> >>

\* reference for C8: a piece is a maximal stretch of consecutive kept
\* indices with every gap next.start - prev.end <= glue_gap
PieceStart(ws, keep, g, i) ==
  keep[i] /\ (i = 1 \/ ~keep[i - 1] \/ ws[i].s - ws[i - 1].e > g)

PieceEnd(ws, keep, g, n, i) ==
  keep[i] /\ (i = n \/ ~keep[i + 1] \/ ws[i + 1].s - ws[i].e > g)

RefRanges(ws, keep, g) ==
  LET n      == Min(Len(ws), Len(keep))
      starts == {i \in 1..n : PieceStart(ws, keep, g, i)}
      kth(k) == CHOOSE i \in starts : Cardinality({j \in starts : j <= i}) = k
      endOf(a) == CHOOSE b \in a..n :
                    /\ PieceEnd(ws, keep, g, n, b)
                    /\ \A c \in a..(b - 1) : ~PieceEnd(ws, keep, g, n, c)
  IN [k \in 1..Cardinality(starts) |-> <<ws[kth(k)].s, ws[endOf(kth(k))].e>>]

\* maximal runs of consecutive kept indices
KeptRuns == {i \in 1..Zipped : mask.keep[i] /\ (i = 1 \/ ~mask.keep[i - 1])}

\* C8: a cut word always closes the open range -- the result equals the
\* reference (maximal runs of kept indices, split where the gap exceeds
\* glue_gap, (first.start, last.end) per piece), so kept words separated by a
\* cut word are in different ranges; fixture (ticks of 0.1 s): keep
\* [T,F,T,T,F], glue_gap 0.5 gives [(0.0,0.5),(1.0,1.4)].
C8_CutClosesRange ==
  Built =>
       /\ BuildRanges(<<[s |-> 0, e |-> 5], [s |-> 6, e |-> 9], [s |-> 10, e |-> 12],
                        [s |-> 13, e |-> 14], [s |-> 15, e |-> 20]>>,
                      <<TRUE, FALSE, TRUE, TRUE, FALSE>>, 5)
            = << <<0, 5>>, <<10, 14>> >>
       /\ mask.ranges = RefRanges(words, mask.keep, arg.glue_gap)
       /\ Len(mask.ranges) >= Cardinality(KeptRuns)

C8_Witness ==
  /\ Built
  /\ mask.keep = <<TRUE, FALSE, TRUE>>
  /\ words[3].s - words[1].e <= arg.glue_gap
  /\ mask.ranges = << <<words[1].s, words[1].e>>, <<words[3].s, words[3].e>> >>

\* every word kept and every inter-word gap within glue_gap
AllKeptAndGlued ==
  /\ Zipped >= 1
  /\ Len(words) = Len(mask.keep)
  /\ \A i \in 1..Zipped : mask.keep[i]
  /\ \A i \in 1..(Zipped - 1) : words[i + 1].s - words[i].e <= arg.glue_gap

\* C9: an all-kept sequence with glue_gap at least every inter-word gap
\* gives exactly one range, (first.start, last.end).
C9_AllKeptOneRange ==
  (Built /\ AllKeptAndGlued) =>
    mask.ranges = << <<words[1].s, words[Len(words)].e>> >>

C9_Witness ==
  /\ Built
  /\ AllKeptAndGlued
  /\ Len(words) = 3
  /\ words[2].s - words[1].e = arg.glue_gap
  /\ words[3].s - words[2].e > 0
  /\ mask.ranges = << <<words[1].s, words[3].e>> >>

\* C10: every emitted TimeRange (start, end) has start < end strictly,
\* zero-length words included.
C10_RangesStrict ==
  Built => \A j \in 1..Len(mask.ranges) : mask.ranges[j][1] < mask.ranges[j][2]

(* ========================= properties: is_trivial ===================== *)
\* C11: is_trivial() returns true if and only if no entry of keep is false
\* (false for any mask with a cut word, the all-cut mask included).
C11_TrivialIffNoCut ==
  op = "is_trivial" =>
    (ret.value[1] <=> ~(\E i \in 1..Len(mask.keep) : mask.keep[i] = FALSE))

C11_Witness ==
  /\ op = "is_trivial"
  /\ mask.keep = <<FALSE, FALSE, FALSE>>
  /\ ret.value = <<FALSE>>

\* C15: with a trivial mask the consumers use the original media and cut no
\* clips: the preview build loads the original media, the export does not
\* cut the media into ranges.
C15_TrivialUsesOriginal ==
  (op \in {"build_preview", "export_clip"} /\ IsTrivial(mask)) =>
    /\ ret.clips = <<>>
    /\ op = "build_preview" => ret.loaded = "original"

(* ===================== properties: view and controller ================ *)
\* the mask toggle_word works on: the stored one, or a new all-kept one
MaskBeforeToggle ==
  IF stored # <<>> THEN Loads(1, stored[1], Len(words))
  ELSE NewMask(1, Repeat(TRUE, Len(words)), DefaultKind)

\* C12: toggling an index outside 0 <= index < len(keep), negative ones
\* included, fails with an IndexError-class error and leaves the mask and
\* the persisted mask unchanged; no other entry is modified.
C12_OutOfRangeToggleFails ==
  [][(op' = "toggle_word"
        /\ (arg'.idx < 0 \/ arg'.idx >= Len(MaskBeforeToggle.keep)))
     => /\ ret'.raised = "IndexError"
        /\ mask'.keep = MaskBeforeToggle.keep
        /\ stored' = stored]_vars

\* C13: a click on word i negates keep[i], emits wordToggled(i, new value)
\* and leaves len(keep), every other keep[j], media_id, kind and the cached
\* _ranges unchanged.
C13_ToggleChangesOnlyOne ==
  [][(op' = "click" /\ view.mask # <<>>
        /\ arg'.idx < Len(view.mask[1].keep))
        => LET m  == view.mask[1]
               m2 == view'.mask[1]
               i  == arg'.idx
           IN /\ m2.keep[i + 1] = ~m.keep[i + 1]
              /\ ret'.emitted = <<i, m2.keep[i + 1]>>
              /\ Len(m2.keep) = Len(m.keep)
              /\ \A j \in 1..Len(m.keep) : j # i + 1 => m2.keep[j] = m.keep[j]
              /\ m2.media_id = m.media_id
              /\ m2.kind = m.kind
              /\ m2.ranges = m.ranges
              /\ view'.words = view.words
    ]_vars

C13_Witness ==
  /\ op = "click"
  /\ arg.idx = 1
  /\ ret.emitted = <<1, TRUE>>
  /\ view.mask # <<>>
  /\ view.mask[1].keep = <<FALSE, TRUE, FALSE>>
  /\ view.mask[1].ranges # <<>>

\* C14: whenever the view has both a mask and a non-empty word list,
\* len(mask.keep) == len(words).
C14_MaskAlignedWithWords ==
  (view.mask # <<>> /\ view.words # <<>>) =>
    Len(view.mask[1].keep) = Len(view.words)

(* ========================= properties: diarization ==================== *)
Diarized == op = "diarize"

\* C16: for every combination of collaborator outcomes diarize() returns
\* without raising, with one entry per transcribed segment, and on the
\* fallback-voting and single-speaker paths every entry carries a label.
C16_DiarizeAlwaysReturns ==
  Diarized =>
    /\ diar.path \in {"primary", "fallback", "single"}
    /\ Len(diar.speakers) = Len(diar.segs)
    /\ diar.path \in {"fallback", "single"} =>
         \A i \in 1..Len(diar.speakers) : diar.speakers[i] # ""

C16_Witness ==
  /\ Diarized
  /\ diar.load = "raises"
  /\ Len(diar.segs) = 2
  /\ diar.speakers = <<"SPEAKER_1", "SPEAKER_1">>

\* C17: when the diarizer raises or returns an annotation with no turns,
\* every segment is labelled SPEAKER_1, whatever its times.
C17_NoTurnsSingleSpeaker ==
  (Diarized /\ (diar.load = "raises" \/ diar.call = "raises" \/ diar.tracks = <<>>)) =>
    \A i \in 1..Len(diar.segs) : diar.speakers[i] = "SPEAKER_1"

\* --- the vote of one segment, stated over sets of keys and ticks ---
TheSeg == diar.segs[1]

\* the ticks the segment walks
SegTicks == {t \in 0..(MaxDTime + Step) :
               TheSeg.s <= t /\ t < TheSeg.e /\ (t - TheSeg.s) % Step = 0}

\* track i stamps time k
Stamps(i, k) ==
  diar.tracks[i].s <= k /\ k < diar.tracks[i].e /\ (k - diar.tracks[i].s) % Step = 0

StampedKeys == {k \in 0..MaxDTime : \E i \in 1..Len(diar.tracks) : Stamps(i, k)}

\* the speaker a key ends up with: the last track stamping it
KeySpeaker(k) ==
  LET i == CHOOSE i \in 1..Len(diar.tracks) :
             Stamps(i, k) /\ \A j \in (i + 1)..Len(diar.tracks) : ~Stamps(j, k)
  IN RemovePrefix(diar.tracks[i].label)

\* the track that stamped a key first
FirstTrack(k) ==
  CHOOSE i \in 1..Len(diar.tracks) : Stamps(i, k) /\ \A j \in 1..(i - 1) : ~Stamps(j, k)

\* key a entered the map before key b
StampedBefore(a, b) ==
  FirstTrack(a) < FirstTrack(b) \/ (FirstTrack(a) = FirstTrack(b) /\ a < b)

NearestKeys(t) ==
  LET keys == StampedKeys
  IN {k \in keys : \A k2 \in keys : Abs(k - t) <= Abs(k2 - t)}

\* the nearest key of a tick; of two equally near keys the one stamped first
NearestKey(t) ==
  LET near == NearestKeys(t)
  IN CHOOSE k \in near : \A k2 \in near \ {k} : StampedBefore(k, k2)

\* the ticks that cast a vote: the nearest key is less than 1.0 s away
VotingTicks == {t \in SegTicks : StampedKeys # {} /\ Abs(NearestKey(t) - t) < Near}

VotesFor(spk) == Cardinality({t \in VotingTicks : KeySpeaker(NearestKey(t)) = spk})

Speakers == {RemovePrefix(l) : l \in Labels}

\* the windows of the turns of other speakers do not meet the window of turn i
DisjointFromOthers(i) ==
  \A j \in 1..Len(diar.tracks) :
    diar.tracks[j].label # diar.tracks[i].label =>
      (diar.tracks[j].e <= diar.tracks[i].s \/ diar.tracks[i].e <= diar.tracks[j].s)

\* the non-empty segment lies inside the window of turn i
Covers(i) ==
  /\ TheSeg.s < TheSeg.e
  /\ diar.tracks[i].s <= TheSeg.s
  /\ TheSeg.e <= diar.tracks[i].e

Voted == Diarized /\ diar.path = "fallback"

\* C18 (as stated): a segment that casts a vote gets a speaker of maximal
\* vote count, a tick voting for the nearest stamped key iff it is less than
\* 1.0 s away; with per-speaker disjoint windows and the segment inside a
\* window, that is the speaker of the covering turn.
C18_VoteIsCoveringTurn ==
  Voted =>
    /\ VotingTicks # {} =>
         /\ diar.speakers[1] \in Speakers
         /\ \A spk \in Speakers : VotesFor(spk) <= VotesFor(diar.speakers[1])
    /\ \A i \in 1..Len(diar.tracks) :
         (DisjointFromOthers(i) /\ Covers(i)) =>
           diar.speakers[1] = RemovePrefix(diar.tracks[i].label)

\* C18 (amended): the same, the covering turn's speaker being claimed only
\* for a segment that starts on the 0.5 s grid of the covering turn, so that
\* each of its ticks is itself a stamped key of that turn.
C18_VoteIsMaximal ==
  Voted =>
    /\ VotingTicks # {} =>
         /\ diar.speakers[1] \in Speakers
         /\ \A spk \in Speakers : VotesFor(spk) <= VotesFor(diar.speakers[1])
    /\ \A i \in 1..Len(diar.tracks) :
         (DisjointFromOthers(i) /\ Covers(i)
            /\ (TheSeg.s - diar.tracks[i].s) % Step = 0) =>
           diar.speakers[1] = RemovePrefix(diar.tracks[i].label)

\* two votes to one, in a segment covered on the grid by the winner's turn
C18_Witness ==
  /\ Voted
  /\ Len(diar.tracks) = 2
  /\ diar.tracks[1].label # diar.tracks[2].label
  /\ DisjointFromOthers(1) /\ Covers(1)
  /\ (TheSeg.s - diar.tracks[1].s) % Step = 0
  /\ Cardinality(VotingTicks) = 2
  /\ diar.speakers[1] = RemovePrefix(diar.tracks[1].label)

\* C19: in the fallback a segment is labelled SPEAKER_UNKNOWN iff it cast no
\* vote, i.e. no stamped key lies within 1 s (less than 1.0 s) of any of its
\* ticks; a segment with start >= end and an empty map are such cases.
C19_UnknownIffNoVote ==
  Voted =>
    /\ diar.speakers[1] = "SPEAKER_UNKNOWN" <=>
         ~(\E t \in SegTicks : \E k \in StampedKeys : Abs(k - t) < Near)
    /\ (TheSeg.s >= TheSeg.e \/ diar.tracks = <<>>) =>
         diar.speakers[1] = "SPEAKER_UNKNOWN"

\* a stamped key exactly 1.0 s from the segment's only tick: no vote
C19_Witness ==
  /\ Voted
  /\ diar.tracks # <<>>
  /\ Cardinality(SegTicks) = 1
  /\ \E t \in SegTicks : \E k \in StampedKeys : Abs(k - t) = Near
  /\ diar.speakers[1] = "SPEAKER_UNKNOWN"

\* the tick at which a speaker's first vote is counted
FirstVote(spk) ==
  CHOOSE t \in VotingTicks :
    /\ KeySpeaker(NearestKey(t)) = spk
    /\ \A u \in VotingTicks : KeySpeaker(NearestKey(u)) = spk => t <= u

TopSpeakers ==
  {spk \in Speakers : VotesFor(spk) > 0 /\ \A o \in Speakers : VotesFor(o) <= VotesFor(spk)}

\* C20: when several speakers share the maximal vote count, the segment
\* gets the one whose first vote was counted earliest in the tick walk.
C20_TieFirstVoted ==
  Voted =>
    LET top == TopSpeakers
    IN Cardinality(top) >= 2 =>
         /\ diar.speakers[1] \in top
         /\ \A o \in top \ {diar.speakers[1]} :
              FirstVote(diar.speakers[1]) < FirstVote(o)

\* one vote each, the later-stamped speaker voted first and wins
C20_Witness ==
  /\ Voted
  /\ Cardinality(TopSpeakers) = 2
  /\ Len(diar.tracks) = 2
  /\ diar.speakers[1] = RemovePrefix(diar.tracks[2].label)
  /\ diar.tracks[1].s < diar.tracks[2].s

(* ========================== properties: formatter ===================== *)
Formatted == op = "format"

\* the segments in ascending start order, equal starts in the given order
ByStart(s) ==
  LET p == CHOOSE p \in [1..Len(s) -> 1..Len(s)] :
             /\ \A i, j \in 1..Len(s) : i # j => p[i] # p[j]
             /\ \A i, j \in 1..Len(s) :
                  i < j => \/ s[p[i]].start < s[p[j]].start
                           \/ (s[p[i]].start = s[p[j]].start /\ p[i] < p[j])
  IN [i \in 1..Len(s) |-> s[p[i]]]

\* the last index of the run of equal speakers that starts at i
RunEnd(s, i) ==
  CHOOSE j \in i..Len(s) :
    /\ \A k \in i..j : s[k].speaker = s[i].speaker
    /\ j = Len(s) \/ s[j + 1].speaker # s[i].speaker

\* the non-empty stripped texts of s[i..j], in order
RunPieces(s, i, j) ==
  LET stripped == [k \in 1..(j - i + 1) |-> Strip(s[i + k - 1].text)]
  IN SelectSeq(stripped, LAMBDA x : x # "")

RECURSIVE RunParagraphs(_, _, _)
\* one paragraph per maximal same-speaker run from index i on; a run without
\* text gives a paragraph only if every run is asked for
RunParagraphs(s, i, every) ==
  IF i > Len(s) THEN <<>>
  ELSE LET j      == RunEnd(s, i)
           pieces == RunPieces(s, i, j)
           para   == "**" \o s[i].speaker \o ":** " \o Join(pieces, " ")
       IN (IF pieces # <<>> \/ every THEN <<para>> ELSE <<>>)
          \o RunParagraphs(s, j + 1, every)

HelloWorld ==
  << [start |-> 0, speaker |-> "00", text |-> "hello"],
     [start |-> 1, speaker |-> "00", text |-> "world"] >>

FooBar ==
  << [start |-> 0, speaker |-> "A", text |-> "foo"],
     [start |-> 1, speaker |-> "B", text |-> "bar"] >>

Fixtures ==
  /\ SegmentsToMarkdown(HelloWorld) = "**00:** hello world"
  /\ SegmentsToMarkdown(FooBar) = "**A:** foo\n\n**B:** bar"
  /\ SegmentsToMarkdown(<<>>) = ""

\* C21 (as stated): after sorting by start, the output is one paragraph
\* `**speaker:** text` per maximal run of consecutive same-speaker segments,
\* the text being the run's non-empty stripped texts joined by single
\* spaces, paragraphs joined by a blank line; empty input gives "".
C21_ParagraphPerRun ==
  Formatted =>
    /\ fmt.out = Join(RunParagraphs(ByStart(fmt.segs), 1, TRUE), "\n\n")
    /\ Fixtures

\* C21 (amended): the same, a run giving a paragraph only if it has at least
\* one non-empty stripped text.
C21_ParagraphPerTextRun ==
  Formatted =>
    /\ fmt.out = Join(RunParagraphs(ByStart(fmt.segs), 1, FALSE), "\n\n")
    /\ Fixtures

\* given out of order: B/bar at 1 first, then two A segments at 0
C21_Witness ==
  /\ Formatted
  /\ Len(fmt.segs) = 3
  /\ fmt.segs[1].start = 1
  /\ fmt.segs[2].start = 0
  /\ fmt.out = "**A:** foo foo\n\n**B:** bar"

\* s without its k-th element
RemoveAt(s, k) == SubSeq(s, 1, k - 1) \o SubSeq(s, k + 1, Len(s))

\* C22: a segment whose text is empty or whitespace only, with any speaker,
\* between two segments does not change the output.
C22_EmptySegmentNoFlush ==
  Formatted =>
    \A k \in 2..(Len(fmt.segs) - 1) :
      Strip(fmt.segs[k].text) = "" =>
        fmt.out = SegmentsToMarkdown(RemoveAt(fmt.segs, k))

\* C23: a second call on the same list object returns the string the first
\* call returned, and a call leaves the caller's list, order and contents,
\* as it was.
C23_PureDeterministic ==
  [][op' = "format" =>
       /\ fmt'.segs = fmt.segs
       /\ fmt.calls >= 1 => fmt'.out = fmt.out]_vars

\* two calls on a list that is not sorted by start
C23_Witness ==
  /\ Formatted
  /\ fmt.calls = 2
  /\ Len(fmt.segs) = 2
  /\ fmt.segs[1].start > fmt.segs[2].start
  /\ fmt.out = "**B:** bar\n\n**A:** foo"
  /\ fmt.prev = fmt.out

(* ==================== properties: transcription job =================== *)
\* audio extraction and transcription succeeded for the job
TranscriptionOK == job.exists /\ job.extract = "ok" /\ job.trans = "ok"

\* process_file has returned or raised
WorkerDone == job.result # ""

\* the values passed to the progress callback never decrease
C24_Monotone ==
  \A i \in 1..(Len(job.reported) - 1) : job.reported[i] <= job.reported[i + 1]

\* C24: the values passed to process_file's progress callback never
\* decrease, on every diarization path; the first is 5 and, when
\* process_file has returned, the last is 100.
C24_ProgressContract ==
  /\ C24_Monotone
  /\ job.reported # <<>> => job.reported[1] = Pct(5)
  /\ job.result = "returned" =>
        /\ job.reported # <<>>
        /\ job.reported[Len(job.reported)] = Pct(100)

\* process_file has ended on the path where the aligner fails and the
\* fallback voting reports 82.5, 85 and 87.5 between 65 and 90
C24_Witness ==
  /\ op = "process_file"
  /\ WorkerDone
  /\ job.dzset
  /\ job.dz = "aligner"
  /\ job.reported = <<Pct(5), Pct(8), Pct(23), Pct(41), Pct(65), 165, 170, 175, Pct(90)>>

\* C25: when extraction and transcription succeeded, process_file saves a
\* transcript with every transcribed segment and returns without
\* PipelineError whatever diarization did, and the status is ERROR only for
\* failures outside diarization.
C25_TranscriptionKept ==
  /\ (WorkerDone /\ TranscriptionOK) =>
        /\ job.saved = job.nseg
        /\ job.result = "returned"
  /\ (WorkerDone /\ job.status = "error") => ~TranscriptionOK

\* the stored progress is a value this job reported
StoredByJob == \E i \in 1..Len(job.reported) : job.reported[i] = job.progress

\* C26: the progress stored in the database for a job never decreases,
\* whatever the interleaving of the worker's writes and the UI thread's,
\* from the job's first write on, while its row exists and no second job
\* on the path has been enqueued.
C26_StoredProgressMonotone ==
  [][(StoredByJob /\ job.opc = 0 /\ job.row # 0 /\ job'.row = job.row)
       => job'.progress >= job.progress]_vars

\* C27: once the worker has written its final status (DONE or ERROR) the
\* status is never set back to RUNNING while no second job on the path has
\* been enqueued, and a job whose worker returned has status DONE when
\* every signal is handled.
C27_FinalStatusKept ==
  /\ [][(WorkerDone /\ job.opc = 0 /\ RowIs(job, job.wid)
          /\ job.status \in {"done", "error"})
          => job'.status # "running"]_vars
  /\ [](job.result = "returned" /\ job.ui = "loop" /\ job.sigq = <<>> => job.status = "done")

(* ======================= properties: job queue ======================== *)
\* C28: the number of workers started and not yet signalled finished or
\* error never exceeds MAX_CONCURRENT_JOBS, also when a path is enqueued
\* more than once.
C28_WorkersBounded == Cardinality(ctl.active) <= MAX_CONCURRENT_JOBS

\* the enqueue numbers of the jobs waiting, started and not yet signalled
Enqueued(n) == n \in 1..ctl.enq
WasStarted(n) == \E i \in 1..Len(ctl.started) : ctl.started[i] = n

\* jobs are started in the order they were enqueued
StartedFIFO ==
  \A i \in 1..(Len(ctl.started) - 1) : ctl.started[i] < ctl.started[i + 1]

\* every enqueued job is eventually started and every running job id
\* eventually leaves running_jobs
EventuallyServed ==
  /\ \A n \in 1..(MaxEnq + 1) : Enqueued(n) ~> WasStarted(n)
  /\ \A id \in 1..(MaxPaths + 1) : (id \in ctl.running) ~> (id \notin ctl.running)

\* C29: every enqueued job is eventually started, in FIFO order, and
\* eventually leaves running_jobs, and no completion handler fails on the
\* removal of its job id.
C29_QueueDrains ==
  /\ EventuallyServed
  /\ []StartedFIFO
  /\ [](ctl.failed = 0)

(* ===================== properties: preview cache ====================== *)
\* C30: after a preview build the clip used for every range of the current
\* mask contains the media between the start and the end of that range.
C30_PreviewReflectsMask ==
  (op = "build_preview" /\ cache.loaded = "clips") =>
     LET ranges == BuildRanges(words, GetEditMask(stored, 1, Len(words))[1].keep,
                               DefaultGlueGap)
     IN /\ Len(cache.clips) = Len(ranges)
        /\ \A i \in 1..Len(ranges) : cache.clips[i] = ranges[i]

====
